---- MODULE Spec2Model ----
(***************************************************************************)
(* InvestmentSummaryGenerator (investment_summary.py): the rule engine     *)
(* that maps a company's ratios and growth metrics to a bull case, a bear  *)
(* case, a risk map, a red-flag list, a valuation range and key metrics.   *)
(*                                                                         *)
(* Numbers are integers in units of 1/10000 (0.15 is 1500, a P/E of 30 is  *)
(* 300000), so every threshold of the source is exact and the decimals     *)
(* the messages round away are visible.                                    *)
(***************************************************************************)
EXTENDS Integers, Sequences, FiniteSets

(***************************************************************************)
(* ratios, growth_rates   the generator's fields (self.ratios,             *)
(*                        self.growth_rates)                               *)
(* ret                    what the last completed call returned            *)
(* fresh                  the two fields as __init__ set them              *)
(* calls                  the methods called so far, oldest first          *)
(* frames                 the invocations in progress, one per caller:     *)
(*                        method, position and local variables             *)
(***************************************************************************)
VARIABLES ratios, growth_rates, ret, fresh, calls, frames

vars == <<ratios, growth_rates, ret, fresh, calls, frames>>

(***************************************************************************)
(* Values a Python expression of the generator can hold: a float, the      *)
(* float NaN, or None.                                                     *)
(***************************************************************************)
Num(n) == [k |-> "num", v |-> n]
NaNV == [k |-> "nan", v |-> 0]
NoneV == [k |-> "none", v |-> 0]

(***************************************************************************)
(* What a cell of the ratios frame or an entry of the growth dict can      *)
(* hold: nothing (the name is not there), None, NaN, a number, text that   *)
(* float() rejects, text that float() parses to a number, and the text     *)
(* "nan", which float() parses to NaN.                                     *)
(***************************************************************************)
Absent == [k |-> "absent", v |-> 0]
CellNone == [k |-> "none", v |-> 0]
CellNaN == [k |-> "nan", v |-> 0]
CellText == [k |-> "text", v |-> 0]
CellNanText == [k |-> "nantext", v |-> 0]
CellNum(n) == [k |-> "num", v |-> n]
CellNumText(n) == [k |-> "numtext", v |-> n]

RatioNames ==
    {"ROE", "Gross_Margin", "Operating_Margin", "Current_Ratio",
     "Debt_to_Equity", "PE_Ratio", "Net_Income", "Operating_Cash_Flow",
     "Current_Price", "Market_Cap", "Total_Revenue"}

GrowthNames == {"Total_Revenue_CAGR"}

FieldNames == RatioNames \cup GrowthNames

(***************************************************************************)
(* pd.notna(val): false for None and NaN, true for everything else, text   *)
(* included.                                                               *)
(***************************************************************************)
pd_notna(cell) == cell.k \notin {"none", "nan"}

(***************************************************************************)
(* float(val): a number stays itself, numeric text is parsed, the text     *)
(* "nan" becomes NaN, other text raises ValueError.                        *)
(***************************************************************************)
FloatRaises(cell) == cell.k = "text"

Float(cell) ==
    IF cell.k \in {"num", "numtext"} THEN Num(cell.v) ELSE NaNV

(***************************************************************************)
(* The cell a value stands for when it is run through pd.notna and float   *)
(* a second time (the default, on the paths that convert it).              *)
(***************************************************************************)
AsCell(val) ==
    IF val.k = "num" THEN CellNum(val.v)
    ELSE IF val.k = "nan" THEN CellNaN ELSE CellNone

(***************************************************************************)
(* return float(val) if pd.notna(val) else default, inside try/except.    *)
(***************************************************************************)
(* A miss filled with 0.0 in place of the default. *)
Coerce_ZeroFill(cell, default) ==
    IF pd_notna(cell) /\ ~FloatRaises(cell) THEN Float(cell) ELSE Num(0)

Coerce(cell, default) ==
    IF ~pd_notna(cell) THEN default
    ELSE IF FloatRaises(cell) THEN default
    ELSE Float(cell)

(***************************************************************************)
(* _get_ratio(name, default) on a given ratios source.                     *)
(*   kind "None"     self.ratios is None                                   *)
(*   kind "Empty"    an empty DataFrame (also the constructor's default)   *)
(*   kind "NotFrame" not a DataFrame: .empty raises, the except returns    *)
(*   kind "Index"    names are row labels, the value is the first column   *)
(*   kind "Columns"  names are column labels, the value is the first row   *)
(***************************************************************************)
(* The accessor with the default argument dropped: None on every miss. *)
RatioOf_NoDefault(src, name, default) ==
    IF src.kind \in {"Index", "Columns"} /\ src.cells[name] # Absent
    THEN Coerce(src.cells[name], NoneV)
    ELSE NoneV

RatioOf(src, name, default) ==
    IF src.kind \in {"None", "Empty"} THEN default
    ELSE IF src.kind = "NotFrame" THEN default
    ELSE IF src.kind = "Index" /\ src.cells[name] # Absent
         THEN Coerce(src.cells[name], default)
    ELSE IF src.kind = "Columns" /\ src.cells[name] # Absent
         THEN Coerce(src.cells[name], default)
    ELSE default

_get_ratio(name, default) == RatioOf(ratios, name, default)

(***************************************************************************)
(* _get_growth_rate(name, default) on a given growth source: dict.get      *)
(* with the default, then the same guarded conversion; a source that is    *)
(* None raises inside the try and yields the default.                      *)
(***************************************************************************)
GrowthOf(src, name, default) ==
    IF src.kind = "None" THEN default
    ELSE LET val == IF src.cells[name] = Absent
                    THEN AsCell(default) ELSE src.cells[name]
         IN  Coerce(val, default)

_get_growth_rate(name, default) == GrowthOf(growth_rates, name, default)

(***************************************************************************)
(* Python's comparisons of a float with a literal: every comparison with   *)
(* NaN is false.  None never reaches one in the guarded rules; where the   *)
(* code compares without a guard, CmpRaises says when TypeError is raised. *)
(***************************************************************************)
(* The non-strict comparisons, >= for > and <= for <. *)
Gt_OrEqual(x, t) == x.k = "num" /\ x.v >= t
Lt_OrEqual(x, t) == x.k = "num" /\ x.v <= t

(* > written the wrong way round. *)
Gt_Reversed(x, t) == x.k = "num" /\ x.v < t

Gt(x, t) == x.k = "num" /\ x.v > t
Lt(x, t) == x.k = "num" /\ x.v < t
Ge(x, t) == x.k = "num" /\ x.v >= t
Le(x, t) == x.k = "num" /\ x.v <= t
GtV(x, y) == x.k = "num" /\ y.k = "num" /\ x.v > y.v
CmpRaises(x) == x.k = "none"

(***************************************************************************)
(* Number formatting.  RoundDiv(n, d) is n/d rounded to the nearest        *)
(* integer (ties to even, as the format of an exactly representable tie).  *)
(*   Pct1    f"{x*100:.1f}"   tenths of a percent                          *)
(*   Fix2    f"{x:.2f}"       hundredths                                   *)
(*   Fix1    f"{x:.1f}"       tenths                                       *)
(***************************************************************************)
RoundDiv(n, d) ==
    LET q == n \div d
        r == n % d
    IN  IF 2 * r < d THEN q
        ELSE IF 2 * r > d THEN q + 1
        ELSE IF q % 2 = 0 THEN q ELSE q + 1

Shown(x, d, dec, suffix) ==
    IF x.k = "num"
    THEN [k |-> "num", v |-> RoundDiv(x.v, d), dec |-> dec, suffix |-> suffix]
    ELSE [k |-> "nan", v |-> 0, dec |-> dec, suffix |-> suffix]

Pct1(x) == Shown(x, 10, 1, "%")
Fix2(x) == Shown(x, 100, 2, "x")
Fix1(x) == Shown(x, 1000, 1, "x")
NoNumber == [k |-> "none", v |-> 0, dec |-> 0, suffix |-> ""]

(***************************************************************************)
(* A message: the fixed wording of its f-string and the number shown in    *)
(* it.  Two messages are the same string iff they are the same record.     *)
(***************************************************************************)
Msg(text, num) == [text |-> text, num |-> num]

(***************************************************************************)
(* Thresholds of generate_bull_case.                                       *)
(***************************************************************************)
BULL_ROE == 1500
BULL_GROSS_MARGIN == 3000
BULL_OP_MARGIN == 1500
BULL_CURRENT_RATIO == 15000
BULL_DEBT_TO_EQUITY == 5000
BULL_REV_CAGR == 1000

bull_fallback_points ==
    << Msg("Established market position with brand recognition", NoNumber),
       Msg("Diversified revenue streams reduce concentration risk", NoNumber),
       Msg("Experienced management team with track record", NoNumber) >>

(***************************************************************************)
(* One rule: if the condition holds, append the message.                   *)
(***************************************************************************)
(* insert(0, msg) in place of append(msg). *)
AppendIf_Prepend(points, cond, msg) == IF cond THEN <<msg>> \o points ELSE points

AppendIf(points, cond, msg) == IF cond THEN Append(points, msg) ELSE points

IsIn(m, points) == \E i \in 1..Len(points) : points[i] = m

(***************************************************************************)
(* The padding loop shared by both generators:                             *)
(*   while len(points) < 3:                                                *)
(*       for fallback in fallback_points:                                  *)
(*           if fallback not in points and len(points) < 3:                *)
(*               points.append(fallback)                                   *)
(* ForPass is the for loop from index i; WhilePad is the while loop.       *)
(***************************************************************************)
RECURSIVE ForPass(_, _, _)
ForPass(points, fallback_points, i) ==
    IF i > Len(fallback_points) THEN points
    ELSE ForPass(AppendIf(points,
                          ~IsIn(fallback_points[i], points) /\ Len(points) < 3,
                          fallback_points[i]),
                 fallback_points, i + 1)

RECURSIVE WhilePad(_, _)
WhilePad(points, fallback_points) ==
    IF Len(points) < 3
    THEN WhilePad(ForPass(points, fallback_points, 1), fallback_points)
    ELSE points

(***************************************************************************)
(* points[:3]                                                              *)
(***************************************************************************)
(* The slice forgotten: every point is returned. *)
FirstThree_NoSlice(points) == points

FirstThree(points) ==
    SubSeq(points, 1, IF Len(points) < 3 THEN Len(points) ELSE 3)

(***************************************************************************)
(* generate_bull_case: the seven rules in order, on given sources.         *)
(***************************************************************************)
BullRules(rs, gs) ==
    LET roe == RatioOf(rs, "ROE", NoneV)
        gross_margin == RatioOf(rs, "Gross_Margin", NoneV)
        op_margin == RatioOf(rs, "Operating_Margin", NoneV)
        current_ratio == RatioOf(rs, "Current_Ratio", NoneV)
        de_ratio == RatioOf(rs, "Debt_to_Equity", NoneV)
        rev_cagr == GrowthOf(gs, "Total_Revenue_CAGR", NoneV)
        net_income == RatioOf(rs, "Net_Income", NoneV)
        ocf == RatioOf(rs, "Operating_Cash_Flow", NoneV)
        p1 == AppendIf(<<>>, roe # NoneV /\ Gt(roe, BULL_ROE),
                  Msg("Strong profitability: ROE of", Pct1(roe)))
        p2 == AppendIf(p1, gross_margin # NoneV /\ Gt(gross_margin, BULL_GROSS_MARGIN),
                  Msg("Healthy margins: Gross margin of", Pct1(gross_margin)))
        p3 == AppendIf(p2, op_margin # NoneV /\ Gt(op_margin, BULL_OP_MARGIN),
                  Msg("Strong operating efficiency: Operating margin of", Pct1(op_margin)))
        p4 == AppendIf(p3, current_ratio # NoneV /\ Gt(current_ratio, BULL_CURRENT_RATIO),
                  Msg("Solid liquidity: Current ratio of", Fix2(current_ratio)))
        p5 == AppendIf(p4, de_ratio # NoneV /\ Lt(de_ratio, BULL_DEBT_TO_EQUITY),
                  Msg("Conservative balance sheet: Debt/Equity of", Fix2(de_ratio)))
        p6 == AppendIf(p5, rev_cagr # NoneV /\ Gt(rev_cagr, BULL_REV_CAGR),
                  Msg("Consistent growth: Revenue CAGR of", Pct1(rev_cagr)))
        p7 == AppendIf(p6, net_income # NoneV /\ ocf # NoneV
                           /\ GtV(ocf, net_income) /\ Gt(net_income, 0),
                  Msg("Excellent cash generation: Operating cash flow exceeds net income",
                      NoNumber))
    IN  p7

BullCase(rs, gs) == FirstThree(WhilePad(BullRules(rs, gs), bull_fallback_points))

generate_bull_case == BullCase(ratios, growth_rates)

(***************************************************************************)
(* Thresholds of generate_bear_case.                                       *)
(***************************************************************************)
BEAR_PE_RATIO == 300000
BEAR_DEBT_TO_EQUITY == 15000
BEAR_REV_CAGR == 300
BEAR_OP_MARGIN == 500
BEAR_CURRENT_RATIO == 10000
BEAR_ROE == 500

bear_fallback_points ==
    << Msg("Competitive pressure may compress margins over time", NoNumber),
       Msg("Macroeconomic sensitivity could impact near-term results", NoNumber),
       Msg("Execution risk in strategic initiatives", NoNumber) >>

(***************************************************************************)
(* generate_bear_case: the six rules in order; the CAGR rule and the ROE   *)
(* rule each pick one of two wordings.                                     *)
(***************************************************************************)
BearRules(rs, gs) ==
    LET pe_ratio == RatioOf(rs, "PE_Ratio", NoneV)
        de_ratio == RatioOf(rs, "Debt_to_Equity", NoneV)
        rev_cagr == GrowthOf(gs, "Total_Revenue_CAGR", NoneV)
        op_margin == RatioOf(rs, "Operating_Margin", NoneV)
        current_ratio == RatioOf(rs, "Current_Ratio", NoneV)
        roe == RatioOf(rs, "ROE", NoneV)
        p1 == AppendIf(<<>>, pe_ratio # NoneV /\ Gt(pe_ratio, BEAR_PE_RATIO),
                  Msg("Premium valuation: P/E ratio of", Fix1(pe_ratio)))
        p2 == AppendIf(p1, de_ratio # NoneV /\ Gt(de_ratio, BEAR_DEBT_TO_EQUITY),
                  Msg("High leverage risk: Debt/Equity of", Fix2(de_ratio)))
        p3 == AppendIf(p2, rev_cagr # NoneV /\ Lt(rev_cagr, BEAR_REV_CAGR),
                  IF Lt(rev_cagr, 0)
                  THEN Msg("Revenue decline: CAGR signals market share loss",
                           Pct1(rev_cagr))
                  ELSE Msg("Slowing growth: revenue CAGR suggests market maturation",
                           Pct1(rev_cagr)))
        p4 == AppendIf(p3, op_margin # NoneV /\ Lt(op_margin, BEAR_OP_MARGIN),
                  Msg("Thin margins: Operating margin of", Pct1(op_margin)))
        p5 == AppendIf(p4, current_ratio # NoneV /\ Lt(current_ratio, BEAR_CURRENT_RATIO),
                  Msg("Liquidity concerns: Current ratio of", Fix2(current_ratio)))
        p6 == AppendIf(p5, roe # NoneV /\ Lt(roe, BEAR_ROE),
                  IF Lt(roe, 0)
                  THEN Msg("Negative profitability: ROE of", Pct1(roe))
                  ELSE Msg("Low returns: ROE of", Pct1(roe)))
    IN  p6

BearCase(rs, gs) == FirstThree(WhilePad(BearRules(rs, gs), bear_fallback_points))

generate_bear_case == BearCase(ratios, growth_rates)

(***************************************************************************)
(* Thresholds of detect_red_flags.                                         *)
(***************************************************************************)
FLAG_DEBT_TO_EQUITY == 20000
FLAG_CURRENT_RATIO == 8000
FLAG_REV_CAGR == -500
FLAG_PE_RATIO == 1000000

NoRedFlags ==
    Msg("No major red flags detected - fundamentals appear healthy", NoNumber)

(***************************************************************************)
(* detect_red_flags: five checks in order, then the sentinel if the list   *)
(* is still empty.                                                         *)
(***************************************************************************)
RedFlagChecks(rs, gs) ==
    LET roe == RatioOf(rs, "ROE", NoneV)
        de_ratio == RatioOf(rs, "Debt_to_Equity", NoneV)
        current_ratio == RatioOf(rs, "Current_Ratio", NoneV)
        rev_cagr == GrowthOf(gs, "Total_Revenue_CAGR", NoneV)
        pe_ratio == RatioOf(rs, "PE_Ratio", NoneV)
        f1 == AppendIf(<<>>, roe # NoneV /\ Lt(roe, 0),
                  Msg("Negative return on equity - company is destroying shareholder value",
                      Pct1(roe)))
        f2 == AppendIf(f1, de_ratio # NoneV /\ Gt(de_ratio, FLAG_DEBT_TO_EQUITY),
                  Msg("High leverage (D/E) - elevated bankruptcy risk", Fix2(de_ratio)))
        f3 == AppendIf(f2, current_ratio # NoneV /\ Lt(current_ratio, FLAG_CURRENT_RATIO),
                  Msg("Liquidity crisis (Current Ratio) - may struggle to meet obligations",
                      Fix2(current_ratio)))
        f4 == AppendIf(f3, rev_cagr # NoneV /\ Lt(rev_cagr, FLAG_REV_CAGR),
                  Msg("Significant revenue decline (CAGR) - business is shrinking",
                      Pct1(rev_cagr)))
        f5 == AppendIf(f4, pe_ratio # NoneV /\ Gt(pe_ratio, FLAG_PE_RATIO),
                  Msg("Extreme valuation (P/E) - priced for perfection", Fix1(pe_ratio)))
    IN  f5

(* The sentinel appended without the "if not red_flags" test. *)
RedFlags_AlwaysSentinel(rs, gs) == Append(RedFlagChecks(rs, gs), NoRedFlags)

RedFlags(rs, gs) ==
    LET red_flags == RedFlagChecks(rs, gs)
    IN  IF red_flags = <<>> THEN Append(red_flags, NoRedFlags) ELSE red_flags

detect_red_flags == RedFlags(ratios, growth_rates)

(***************************************************************************)
(* Defaults and thresholds of assess_risks.                                *)
(***************************************************************************)
DEFAULT_CURRENT_RATIO == 10000
DEFAULT_DEBT_TO_EQUITY == 10000
DEFAULT_PE_RATIO == 200000
DEFAULT_REV_CAGR == 500
DEFAULT_ROE == 1000
DEFAULT_OP_MARGIN == 1000

FH_LOW_CURRENT_RATIO == 15000
FH_LOW_DEBT_TO_EQUITY == 5000
FH_HIGH_CURRENT_RATIO == 10000
FH_HIGH_DEBT_TO_EQUITY == 20000
VAL_LOW_PE == 200000
VAL_HIGH_PE == 400000
GROWTH_LOW_CAGR == 1000
LIQ_LOW_CURRENT_RATIO == 20000
LIQ_HIGH_CURRENT_RATIO == 10000
PROF_LOW_ROE == 1500
PROF_LOW_OP_MARGIN == 1500
PROF_HIGH_OP_MARGIN == 500

Categories ==
    {"Financial Health", "Valuation", "Growth", "Liquidity", "Profitability"}

Levels == {"LOW", "MODERATE", "HIGH"}

(***************************************************************************)
(* The five if/elif/else blocks of assess_risks, evaluated as Python       *)
(* evaluates them: left to right, and/or short-circuit, and a comparison   *)
(* that meets None raises TypeError (the blocks on current_ratio and       *)
(* de_ratio have no "is not None" guard).                                  *)
(***************************************************************************)
(* The LOW test written with > and < in place of >= and <=. *)
FinancialHealthLevel_Strict(current_ratio, de_ratio) ==
    IF CmpRaises(current_ratio) THEN "TypeError"
    ELSE IF Gt(current_ratio, FH_LOW_CURRENT_RATIO) /\ CmpRaises(de_ratio)
         THEN "TypeError"
    ELSE IF Gt(current_ratio, FH_LOW_CURRENT_RATIO)
            /\ Lt(de_ratio, FH_LOW_DEBT_TO_EQUITY) THEN "LOW"
    ELSE IF Lt(current_ratio, FH_HIGH_CURRENT_RATIO) THEN "HIGH"
    ELSE IF CmpRaises(de_ratio) THEN "TypeError"
    ELSE IF Gt(de_ratio, FH_HIGH_DEBT_TO_EQUITY) THEN "HIGH"
    ELSE "MODERATE"

FinancialHealthLevel(current_ratio, de_ratio) ==
    IF CmpRaises(current_ratio) THEN "TypeError"
    ELSE IF Ge(current_ratio, FH_LOW_CURRENT_RATIO) /\ CmpRaises(de_ratio)
         THEN "TypeError"
    ELSE IF Ge(current_ratio, FH_LOW_CURRENT_RATIO)
            /\ Le(de_ratio, FH_LOW_DEBT_TO_EQUITY) THEN "LOW"
    ELSE IF Lt(current_ratio, FH_HIGH_CURRENT_RATIO) THEN "HIGH"
    ELSE IF CmpRaises(de_ratio) THEN "TypeError"
    ELSE IF Gt(de_ratio, FH_HIGH_DEBT_TO_EQUITY) THEN "HIGH"
    ELSE "MODERATE"

ValuationLevel(pe_ratio) ==
    IF pe_ratio # NoneV
    THEN IF Lt(pe_ratio, VAL_LOW_PE) THEN "LOW"
         ELSE IF Gt(pe_ratio, VAL_HIGH_PE) THEN "HIGH"
         ELSE "MODERATE"
    ELSE "MODERATE"

GrowthLevel(rev_cagr) ==
    IF rev_cagr # NoneV
    THEN IF Gt(rev_cagr, GROWTH_LOW_CAGR) THEN "LOW"
         ELSE IF Lt(rev_cagr, 0) THEN "HIGH"
         ELSE "MODERATE"
    ELSE "MODERATE"

LiquidityLevel(current_ratio) ==
    IF CmpRaises(current_ratio) THEN "TypeError"
    ELSE IF Ge(current_ratio, LIQ_LOW_CURRENT_RATIO) THEN "LOW"
    ELSE IF Lt(current_ratio, LIQ_HIGH_CURRENT_RATIO) THEN "HIGH"
    ELSE "MODERATE"

(* HIGH decided with "and" in place of "or". *)
ProfitabilityLevel_HighNeedsBoth(roe, op_margin) ==
    IF roe # NoneV /\ op_margin # NoneV
    THEN IF Gt(roe, PROF_LOW_ROE) /\ Gt(op_margin, PROF_LOW_OP_MARGIN) THEN "LOW"
         ELSE IF Lt(roe, 0) /\ Lt(op_margin, PROF_HIGH_OP_MARGIN) THEN "HIGH"
         ELSE "MODERATE"
    ELSE "MODERATE"

ProfitabilityLevel(roe, op_margin) ==
    IF roe # NoneV /\ op_margin # NoneV
    THEN IF Gt(roe, PROF_LOW_ROE) /\ Gt(op_margin, PROF_LOW_OP_MARGIN) THEN "LOW"
         ELSE IF Lt(roe, 0) \/ Lt(op_margin, PROF_HIGH_OP_MARGIN) THEN "HIGH"
         ELSE "MODERATE"
    ELSE "MODERATE"

(***************************************************************************)
(* assess_risks on given sources: [raised, risks].  If a block raises, the *)
(* call raises and returns nothing (risks is then the levels computed, of  *)
(* no use to the caller).                                                  *)
(***************************************************************************)
AssessRisks(rs, gs) ==
    LET current_ratio == RatioOf(rs, "Current_Ratio", Num(DEFAULT_CURRENT_RATIO))
        de_ratio == RatioOf(rs, "Debt_to_Equity", Num(DEFAULT_DEBT_TO_EQUITY))
        pe_ratio == RatioOf(rs, "PE_Ratio", Num(DEFAULT_PE_RATIO))
        rev_cagr == GrowthOf(gs, "Total_Revenue_CAGR", Num(DEFAULT_REV_CAGR))
        roe == RatioOf(rs, "ROE", Num(DEFAULT_ROE))
        op_margin == RatioOf(rs, "Operating_Margin", Num(DEFAULT_OP_MARGIN))
        risks == [c \in Categories |->
                    CASE c = "Financial Health" ->
                             FinancialHealthLevel(current_ratio, de_ratio)
                      [] c = "Valuation" -> ValuationLevel(pe_ratio)
                      [] c = "Growth" -> GrowthLevel(rev_cagr)
                      [] c = "Liquidity" -> LiquidityLevel(current_ratio)
                      [] c = "Profitability" -> ProfitabilityLevel(roe, op_margin)]
    IN  [raised |-> \E c \in Categories : risks[c] = "TypeError", risks |-> risks]

assess_risks == AssessRisks(ratios, growth_rates)

(***************************************************************************)
(* calculate_valuation_range.  price * 0.80 and price * 1.25 are taken     *)
(* exactly (the prices of the model are multiples of 0.002, where both     *)
(* products are whole units); NaN times anything is NaN.                   *)
(***************************************************************************)
BEAR_PCT == -20
BULL_PCT == 25

Scale(x, percent) ==
    IF x.k = "num" THEN Num((x.v * percent) \div 100) ELSE NaNV

ValuationRange(rs) ==
    LET current_price == RatioOf(rs, "Current_Price", NoneV)
    IN  IF current_price = NoneV \/ Le(current_price, 0)
        THEN [bear_case |-> Num(0), base_case |-> Num(0), bull_case |-> Num(0),
              bear_pct |-> BEAR_PCT, bull_pct |-> BULL_PCT]
        ELSE [bear_case |-> Scale(current_price, 80),
              base_case |-> current_price,
              bull_case |-> Scale(current_price, 125),
              bear_pct |-> BEAR_PCT, bull_pct |-> BULL_PCT]

calculate_valuation_range == ValuationRange(ratios)

(***************************************************************************)
(* get_key_metrics: eight display names, each read with no default.        *)
(***************************************************************************)
MetricRatio ==
    [Current_Price |-> "Current_Price", PE_Ratio |-> "PE_Ratio",
     Market_Cap |-> "Market_Cap", Revenue |-> "Total_Revenue",
     Net_Income |-> "Net_Income", ROE |-> "ROE",
     Debt_Equity |-> "Debt_to_Equity", Current_Ratio |-> "Current_Ratio"]

KeyMetrics(rs) == [m \in DOMAIN MetricRatio |-> RatioOf(rs, MetricRatio[m], NoneV)]

get_key_metrics == KeyMetrics(ratios)

(***************************************************************************)
(* The records the generator is constructed on.                            *)
(*                                                                         *)
(* Grid[f]: numbers for field f on, between and beyond every threshold     *)
(* that reads f.  Wide[f]: a few of them, far from the thresholds.         *)
(***************************************************************************)
Grid ==
    [ROE |-> {-250, 0, 300, 500, 1500, 2034},
     Gross_Margin |-> {2500, 3000, 4150},
     Operating_Margin |-> {200, 500, 1500, 2210},
     Current_Ratio |-> {5000, 8000, 10000, 15000, 20000, 24870},
     Debt_to_Equity |-> {3000, 5000, 10000, 15000, 20000, 25130},
     PE_Ratio |-> {150000, 200000, 300000, 400000, 1000000, 1203400},
     Net_Income |-> {-1000000, 0, 5000000},
     Operating_Cash_Flow |-> {0, 5000000, 8000000},
     Current_Price |-> {-50000, 0, 500000, 1000000},
     Market_Cap |-> {70000000},
     Total_Revenue |-> {90000000},
     Total_Revenue_CAGR |-> {-800, -500, 0, 300, 1000, 1250}]

Wide ==
    [ROE |-> {-250, 300, 2034},
     Gross_Margin |-> {4150},
     Operating_Margin |-> {200, 2210},
     Current_Ratio |-> {5000, 24870},
     Debt_to_Equity |-> {3000, 25130},
     PE_Ratio |-> {150000, 1203400},
     Net_Income |-> {5000000},
     Operating_Cash_Flow |-> {8000000},
     Current_Price |-> {},
     Market_Cap |-> {},
     Total_Revenue |-> {},
     Total_Revenue_CAGR |-> {-800, 0, 1250}]

(***************************************************************************)
(* The number a field's numeric text spells.                               *)
(***************************************************************************)
Spelled ==
    [ROE |-> 2034, Gross_Margin |-> 4150, Operating_Margin |-> 200,
     Current_Ratio |-> 5000, Debt_to_Equity |-> 25130, PE_Ratio |-> 1203400,
     Net_Income |-> 5000000, Operating_Cash_Flow |-> 8000000,
     Current_Price |-> 1000000, Market_Cap |-> 70000000,
     Total_Revenue |-> 90000000, Total_Revenue_CAGR |-> 1250]

(***************************************************************************)
(* Every kind of content for one field, and the few of the wide records.   *)
(***************************************************************************)
FineCells(f) ==
    {CellNum(n) : n \in Grid[f]}
        \cup {CellNone, CellNaN, CellText, CellNanText, CellNumText(Spelled[f])}

WideCells(f) == {Absent} \cup {CellNum(n) : n \in Wide[f]}

AllAbsent == [f \in FieldNames |-> Absent]

(***************************************************************************)
(* The fine records: the fields of one set F are drawn from FineCells and  *)
(* the rest are absent.  F is any set of at most MaxFine fields, or one of *)
(* the pairs that a single condition of the source reads together         *)
(* (Financial Health, Profitability, the cash-flow rule).  The wide        *)
(* records draw every field from WideCells.                                *)
(***************************************************************************)
MaxFine == 1

JointFields ==
    { {"Current_Ratio", "Debt_to_Equity"},
      {"ROE", "Operating_Margin"},
      {"Net_Income", "Operating_Cash_Flow"} }

FineSets ==
    {F \in SUBSET FieldNames : Cardinality(F) <= MaxFine} \cup JointFields

OneFineSets == {F \in SUBSET FieldNames : Cardinality(F) <= 1}

CellsOn(F, f) == IF f \in F THEN FineCells(f) ELSE {Absent}

FineRecords(F) ==
    [ROE : CellsOn(F, "ROE"),
     Gross_Margin : CellsOn(F, "Gross_Margin"),
     Operating_Margin : CellsOn(F, "Operating_Margin"),
     Current_Ratio : CellsOn(F, "Current_Ratio"),
     Debt_to_Equity : CellsOn(F, "Debt_to_Equity"),
     PE_Ratio : CellsOn(F, "PE_Ratio"),
     Net_Income : CellsOn(F, "Net_Income"),
     Operating_Cash_Flow : CellsOn(F, "Operating_Cash_Flow"),
     Current_Price : CellsOn(F, "Current_Price"),
     Market_Cap : CellsOn(F, "Market_Cap"),
     Total_Revenue : CellsOn(F, "Total_Revenue"),
     Total_Revenue_CAGR : CellsOn(F, "Total_Revenue_CAGR")]

WideRecords ==
    [ROE : WideCells("ROE"),
     Gross_Margin : WideCells("Gross_Margin"),
     Operating_Margin : WideCells("Operating_Margin"),
     Current_Ratio : WideCells("Current_Ratio"),
     Debt_to_Equity : WideCells("Debt_to_Equity"),
     PE_Ratio : WideCells("PE_Ratio"),
     Net_Income : WideCells("Net_Income"),
     Operating_Cash_Flow : WideCells("Operating_Cash_Flow"),
     Current_Price : WideCells("Current_Price"),
     Market_Cap : WideCells("Market_Cap"),
     Total_Revenue : WideCells("Total_Revenue"),
     Total_Revenue_CAGR : WideCells("Total_Revenue_CAGR")]

(***************************************************************************)
(* __init__: self.ratios and self.growth_rates as taken from financials.   *)
(* A wide record arrives as a row-labelled frame and a dict; a fine record *)
(* as either orientation of frame, or with one of the two sources unusable *)
(* (ratios None, empty or not a frame; growth_rates None), in which case   *)
(* that source holds nothing.                                              *)
(***************************************************************************)
RatioCells(rec) == [n \in RatioNames |-> rec[n]]
GrowthCells(rec) == [n \in GrowthNames |-> rec[n]]

Frame(kind, rec) == [kind |-> kind, cells |-> RatioCells(rec)]
Growth(kind, rec) == [kind |-> kind, cells |-> GrowthCells(rec)]

NCallers == 2

NotConstructed == [method |-> "__init__", raised |-> FALSE, value |-> <<>>]

WideConstructed ==
    \E rec \in WideRecords, kind \in {"Index", "Columns"} :
        /\ ratios = Frame(kind, rec)
        /\ growth_rates = Growth("Dict", rec)

FineConstructed ==
    \E F \in FineSets : \E rec \in FineRecords(F) :
        /\ ratios = Frame("Index", rec)
        /\ growth_rates = Growth("Dict", rec)

OneFineConstructed ==
    \/ \E F \in OneFineSets : \E rec \in FineRecords(F) :
         /\ ratios = Frame("Columns", rec)
         /\ growth_rates = Growth("Dict", rec)
    \/ \E rec \in FineRecords(GrowthNames),
          kind \in {"None", "Empty", "NotFrame"} :
         /\ ratios = Frame(kind, AllAbsent)
         /\ growth_rates = Growth("Dict", rec)
    \/ \E F \in OneFineSets : \E rec \in FineRecords(F) :
         /\ ratios = Frame("Index", rec)
         /\ growth_rates = Growth("None", AllAbsent)

(***************************************************************************)
(* No call has been made and none is in progress.                          *)
(***************************************************************************)
Callers == 1..NCallers

NoCall == [method |-> "none", pc |-> "idle", i |-> 0, passes |-> 0,
           raised |-> FALSE, work |-> <<>>, held |-> NoneV, value |-> <<>>]

Untouched ==
    /\ ret = NotConstructed
    /\ fresh = [ratios |-> ratios, growth_rates |-> growth_rates]
    /\ calls = <<>>
    /\ frames = [c \in Callers |-> NoCall]

Init ==
    /\ WideConstructed \/ FineConstructed \/ OneFineConstructed
    /\ Untouched

(***************************************************************************)
(* One action per public method: the call returns (or raises) and leaves   *)
(* the generator's fields alone.                                           *)
(***************************************************************************)
Returned(method, value) == [method |-> method, raised |-> FALSE, value |-> value]

Call_generate_bull_case ==
    /\ ret' = Returned("generate_bull_case", generate_bull_case)
    /\ UNCHANGED <<ratios, growth_rates, fresh, calls, frames>>

Call_generate_bear_case ==
    /\ ret' = Returned("generate_bear_case", generate_bear_case)
    /\ UNCHANGED <<ratios, growth_rates, fresh, calls, frames>>

Call_assess_risks ==
    /\ ret' = [method |-> "assess_risks", raised |-> assess_risks.raised,
               value |-> assess_risks.risks]
    /\ UNCHANGED <<ratios, growth_rates, fresh, calls, frames>>

Call_detect_red_flags ==
    /\ ret' = Returned("detect_red_flags", detect_red_flags)
    /\ UNCHANGED <<ratios, growth_rates, fresh, calls, frames>>

Call_calculate_valuation_range ==
    /\ ret' = Returned("calculate_valuation_range", calculate_valuation_range)
    /\ UNCHANGED <<ratios, growth_rates, fresh, calls, frames>>

Call_get_key_metrics ==
    /\ ret' = Returned("get_key_metrics", get_key_metrics)
    /\ UNCHANGED <<ratios, growth_rates, fresh, calls, frames>>

Next ==
    \/ Call_generate_bull_case
    \/ Call_generate_bear_case
    \/ Call_assess_risks
    \/ Call_detect_red_flags
    \/ Call_calculate_valuation_range
    \/ Call_get_key_metrics

Spec == Init /\ [][Next]_vars

(***************************************************************************)
(* The records on which call sequences and interleavings are explored:     *)
(* the first k bull rules fire, or the first k bear rules do, for k up to  *)
(* MaxFired, so that the padding loop starts from 0, 1 and 2 rule          *)
(* messages and is skipped with 3.                                         *)
(***************************************************************************)
MaxFired == 3

BullOrder ==
    << "ROE", "Gross_Margin", "Operating_Margin", "Current_Ratio",
       "Debt_to_Equity", "Total_Revenue_CAGR" >>

BearOrder ==
    << "PE_Ratio", "Debt_to_Equity", "Total_Revenue_CAGR", "Operating_Margin",
       "Current_Ratio", "ROE" >>

Strong ==
    [ROE |-> 2034, Gross_Margin |-> 4150, Operating_Margin |-> 2210,
     Current_Ratio |-> 24870, Debt_to_Equity |-> 3000, Total_Revenue_CAGR |-> 1250]

Weak ==
    [PE_Ratio |-> 1203400, Debt_to_Equity |-> 25130, Total_Revenue_CAGR |-> -800,
     Operating_Margin |-> 200, Current_Ratio |-> 5000, ROE |-> -250]

Profile(order, values, k) ==
    [f \in FieldNames |->
        IF \E j \in 1..k : order[j] = f THEN CellNum(values[f]) ELSE Absent]

ProfileRecords ==
    {Profile(BullOrder, Strong, k) : k \in 0..MaxFired}
        \cup {Profile(BearOrder, Weak, k) : k \in 1..MaxFired}

ProfileConstructed ==
    \E rec \in ProfileRecords :
        /\ ratios = Frame("Index", rec)
        /\ growth_rates = Growth("Dict", rec)

(***************************************************************************)
(* Sequences of calls on one generator: any method, in any order, with     *)
(* repetition, up to MaxCalls calls.  Output(m) is what a call of m        *)
(* returns on the generator's fields as they are now.                      *)
(***************************************************************************)
MaxCalls == 2

Methods ==
    {"generate_bull_case", "generate_bear_case", "assess_risks",
     "detect_red_flags", "calculate_valuation_range", "get_key_metrics"}

Output(m) ==
    CASE m = "generate_bull_case" -> Returned(m, generate_bull_case)
      [] m = "generate_bear_case" -> Returned(m, generate_bear_case)
      [] m = "assess_risks" ->
            [method |-> m, raised |-> assess_risks.raised,
             value |-> assess_risks.risks]
      [] m = "detect_red_flags" -> Returned(m, detect_red_flags)
      [] m = "calculate_valuation_range" -> Returned(m, calculate_valuation_range)
      [] m = "get_key_metrics" -> Returned(m, get_key_metrics)

(* The call cleans the frame in place: every None or NaN cell becomes 0. *)
Call_FillNa(m) ==
    /\ Len(calls) < MaxCalls
    /\ ret' = Output(m)
    /\ calls' = Append(calls, m)
    /\ ratios' = [ratios EXCEPT !.cells =
                     [n \in RatioNames |->
                        IF pd_notna(ratios.cells[n]) THEN ratios.cells[n]
                        ELSE CellNum(0)]]
    /\ UNCHANGED <<growth_rates, fresh, frames>>

Call(m) ==
    /\ Len(calls) < MaxCalls
    /\ ret' = Output(m)
    /\ calls' = Append(calls, m)
    /\ UNCHANGED <<ratios, growth_rates, fresh, frames>>

InitCalls ==
    /\ OneFineConstructed \/ ProfileConstructed
    /\ Untouched

NextCalls == \E m \in Methods : Call(m)

SpecCalls == InitCalls /\ [][NextCalls]_vars

(***************************************************************************)
(* The methods statement by statement, run by NCallers callers on one      *)
(* generator with their steps interleaved in any order.  A caller's frame  *)
(* holds the invocation's locals:                                          *)
(*   work    the list being built (bull_points, bear_points, red_flags)    *)
(*           or the dict (risks)                                           *)
(*   held    current_ratio of assess_risks, read once and used twice       *)
(*   i       the rule, check or block about to run, or the index of the    *)
(*           for loop over fallback_points                                 *)
(*   passes  how many times the while loop's body was entered              *)
(*   pc      "rule", "while", "for", "check", "sentinel", "block",         *)
(*           "body", "return", then "done" with value (or raised)          *)
(***************************************************************************)
MaxPasses == 2

BullRule(i, rs, gs) ==
    CASE i = 1 ->
           LET roe == RatioOf(rs, "ROE", NoneV)
           IN  [fires |-> roe # NoneV /\ Gt(roe, BULL_ROE),
                msg |-> Msg("Strong profitability: ROE of", Pct1(roe))]
      [] i = 2 ->
           LET gross_margin == RatioOf(rs, "Gross_Margin", NoneV)
           IN  [fires |-> gross_margin # NoneV /\ Gt(gross_margin, BULL_GROSS_MARGIN),
                msg |-> Msg("Healthy margins: Gross margin of", Pct1(gross_margin))]
      [] i = 3 ->
           LET op_margin == RatioOf(rs, "Operating_Margin", NoneV)
           IN  [fires |-> op_margin # NoneV /\ Gt(op_margin, BULL_OP_MARGIN),
                msg |-> Msg("Strong operating efficiency: Operating margin of",
                            Pct1(op_margin))]
      [] i = 4 ->
           LET current_ratio == RatioOf(rs, "Current_Ratio", NoneV)
           IN  [fires |-> current_ratio # NoneV /\ Gt(current_ratio, BULL_CURRENT_RATIO),
                msg |-> Msg("Solid liquidity: Current ratio of", Fix2(current_ratio))]
      [] i = 5 ->
           LET de_ratio == RatioOf(rs, "Debt_to_Equity", NoneV)
           IN  [fires |-> de_ratio # NoneV /\ Lt(de_ratio, BULL_DEBT_TO_EQUITY),
                msg |-> Msg("Conservative balance sheet: Debt/Equity of", Fix2(de_ratio))]
      [] i = 6 ->
           LET rev_cagr == GrowthOf(gs, "Total_Revenue_CAGR", NoneV)
           IN  [fires |-> rev_cagr # NoneV /\ Gt(rev_cagr, BULL_REV_CAGR),
                msg |-> Msg("Consistent growth: Revenue CAGR of", Pct1(rev_cagr))]
      [] i = 7 ->
           LET net_income == RatioOf(rs, "Net_Income", NoneV)
               ocf == RatioOf(rs, "Operating_Cash_Flow", NoneV)
           IN  [fires |-> /\ net_income # NoneV /\ ocf # NoneV
                          /\ GtV(ocf, net_income) /\ Gt(net_income, 0),
                msg |-> Msg("Excellent cash generation: Operating cash flow exceeds net income",
                            NoNumber)]

BearRule(i, rs, gs) ==
    CASE i = 1 ->
           LET pe_ratio == RatioOf(rs, "PE_Ratio", NoneV)
           IN  [fires |-> pe_ratio # NoneV /\ Gt(pe_ratio, BEAR_PE_RATIO),
                msg |-> Msg("Premium valuation: P/E ratio of", Fix1(pe_ratio))]
      [] i = 2 ->
           LET de_ratio == RatioOf(rs, "Debt_to_Equity", NoneV)
           IN  [fires |-> de_ratio # NoneV /\ Gt(de_ratio, BEAR_DEBT_TO_EQUITY),
                msg |-> Msg("High leverage risk: Debt/Equity of", Fix2(de_ratio))]
      [] i = 3 ->
           LET rev_cagr == GrowthOf(gs, "Total_Revenue_CAGR", NoneV)
           IN  [fires |-> rev_cagr # NoneV /\ Lt(rev_cagr, BEAR_REV_CAGR),
                msg |-> IF Lt(rev_cagr, 0)
                        THEN Msg("Revenue decline: CAGR signals market share loss",
                                 Pct1(rev_cagr))
                        ELSE Msg("Slowing growth: revenue CAGR suggests market maturation",
                                 Pct1(rev_cagr))]
      [] i = 4 ->
           LET op_margin == RatioOf(rs, "Operating_Margin", NoneV)
           IN  [fires |-> op_margin # NoneV /\ Lt(op_margin, BEAR_OP_MARGIN),
                msg |-> Msg("Thin margins: Operating margin of", Pct1(op_margin))]
      [] i = 5 ->
           LET current_ratio == RatioOf(rs, "Current_Ratio", NoneV)
           IN  [fires |-> current_ratio # NoneV /\ Lt(current_ratio, BEAR_CURRENT_RATIO),
                msg |-> Msg("Liquidity concerns: Current ratio of", Fix2(current_ratio))]
      [] i = 6 ->
           LET roe == RatioOf(rs, "ROE", NoneV)
           IN  [fires |-> roe # NoneV /\ Lt(roe, BEAR_ROE),
                msg |-> IF Lt(roe, 0)
                        THEN Msg("Negative profitability: ROE of", Pct1(roe))
                        ELSE Msg("Low returns: ROE of", Pct1(roe))]

RedFlagCheck(i, rs, gs) ==
    CASE i = 1 ->
           LET roe == RatioOf(rs, "ROE", NoneV)
           IN  [fires |-> roe # NoneV /\ Lt(roe, 0),
                msg |-> Msg("Negative return on equity - company is destroying shareholder value",
                            Pct1(roe))]
      [] i = 2 ->
           LET de_ratio == RatioOf(rs, "Debt_to_Equity", NoneV)
           IN  [fires |-> de_ratio # NoneV /\ Gt(de_ratio, FLAG_DEBT_TO_EQUITY),
                msg |-> Msg("High leverage (D/E) - elevated bankruptcy risk", Fix2(de_ratio))]
      [] i = 3 ->
           LET current_ratio == RatioOf(rs, "Current_Ratio", NoneV)
           IN  [fires |-> current_ratio # NoneV /\ Lt(current_ratio, FLAG_CURRENT_RATIO),
                msg |-> Msg("Liquidity crisis (Current Ratio) - may struggle to meet obligations",
                            Fix2(current_ratio))]
      [] i = 4 ->
           LET rev_cagr == GrowthOf(gs, "Total_Revenue_CAGR", NoneV)
           IN  [fires |-> rev_cagr # NoneV /\ Lt(rev_cagr, FLAG_REV_CAGR),
                msg |-> Msg("Significant revenue decline (CAGR) - business is shrinking",
                            Pct1(rev_cagr))]
      [] i = 5 ->
           LET pe_ratio == RatioOf(rs, "PE_Ratio", NoneV)
           IN  [fires |-> pe_ratio # NoneV /\ Gt(pe_ratio, FLAG_PE_RATIO),
                msg |-> Msg("Extreme valuation (P/E) - priced for perfection",
                            Fix1(pe_ratio))]

(***************************************************************************)
(* One block of assess_risks: the category it decides, its level, and      *)
(* current_ratio as the invocation holds it afterwards.                    *)
(***************************************************************************)
RiskBlock(i, held, rs, gs) ==
    CASE i = 1 ->
           LET current_ratio == RatioOf(rs, "Current_Ratio", Num(DEFAULT_CURRENT_RATIO))
               de_ratio == RatioOf(rs, "Debt_to_Equity", Num(DEFAULT_DEBT_TO_EQUITY))
           IN  [category |-> "Financial Health",
                level |-> FinancialHealthLevel(current_ratio, de_ratio),
                held |-> current_ratio]
      [] i = 2 ->
           [category |-> "Valuation",
            level |-> ValuationLevel(RatioOf(rs, "PE_Ratio", Num(DEFAULT_PE_RATIO))),
            held |-> held]
      [] i = 3 ->
           [category |-> "Growth",
            level |-> GrowthLevel(GrowthOf(gs, "Total_Revenue_CAGR",
                                           Num(DEFAULT_REV_CAGR))),
            held |-> held]
      [] i = 4 ->
           [category |-> "Liquidity", level |-> LiquidityLevel(held), held |-> held]
      [] i = 5 ->
           [category |-> "Profitability",
            level |-> ProfitabilityLevel(
                          RatioOf(rs, "ROE", Num(DEFAULT_ROE)),
                          RatioOf(rs, "Operating_Margin", Num(DEFAULT_OP_MARGIN))),
            held |-> held]

(* risks[category] = level *)
Assign(risks, category, level) ==
    [c \in DOMAIN risks \cup {category} |->
        IF c = category THEN level ELSE risks[c]]

(***************************************************************************)
(* The test of the padding loop's body:                                    *)
(*   if fallback not in points and len(points) < 3                         *)
(***************************************************************************)
(* "in" written for "not in". *)
Fills_In(fallback, points) == IsIn(fallback, points) /\ Len(points) < 3

Fills(fallback, points) == ~IsIn(fallback, points) /\ Len(points) < 3

(***************************************************************************)
(* A step of caller c writes its own frame: the locals of an invocation    *)
(* are its own.                                                            *)
(***************************************************************************)
(* The working list is one object for all running invocations of a method  *)
(* (a mutable default argument, a class attribute).                        *)
Local_SharedList(fs, c, f) ==
    [d \in DOMAIN fs |->
        IF d = c THEN f
        ELSE IF fs[d].method = f.method /\ fs[d].pc \notin {"idle", "done"}
                  /\ f.pc \notin {"idle", "done"}
             THEN [fs[d] EXCEPT !.work = f.work]
        ELSE fs[d]]

Local(fs, c, f) == [fs EXCEPT ![c] = f]

FirstPc(m) ==
    CASE m \in {"generate_bull_case", "generate_bear_case"} -> "rule"
      [] m = "detect_red_flags" -> "check"
      [] m = "assess_risks" -> "block"
      [] OTHER -> "body"

NewCall(m) ==
    [method |-> m, pc |-> FirstPc(m), i |-> 1, passes |-> 0, raised |-> FALSE,
     work |-> <<>>, held |-> NoneV, value |-> <<>>]

Invoke(c, m) ==
    /\ frames[c].pc \in {"idle", "done"}
    /\ frames' = Local(frames, c, NewCall(m))
    /\ UNCHANGED <<ratios, growth_rates, ret, fresh, calls>>

RuleStep(c) ==
    LET f == frames[c]
        bull == f.method = "generate_bull_case"
        rule == IF bull THEN BullRule(f.i, ratios, growth_rates)
                ELSE BearRule(f.i, ratios, growth_rates)
        last == f.i = (IF bull THEN 7 ELSE 6)
    IN  /\ f.pc = "rule"
        /\ frames' = Local(frames, c,
               [f EXCEPT !.work = AppendIf(f.work, rule.fires, rule.msg),
                         !.i = IF last THEN 0 ELSE f.i + 1,
                         !.pc = IF last THEN "while" ELSE "rule"])
        /\ UNCHANGED <<ratios, growth_rates, ret, fresh, calls>>

WhileTest(c) ==
    LET f == frames[c]
    IN  /\ f.pc = "while"
        /\ IF Len(f.work) < 3
           THEN /\ f.passes < MaxPasses
                /\ frames' = Local(frames, c,
                       [f EXCEPT !.pc = "for", !.i = 1, !.passes = f.passes + 1])
           ELSE frames' = Local(frames, c, [f EXCEPT !.pc = "return"])
        /\ UNCHANGED <<ratios, growth_rates, ret, fresh, calls>>

ForStep(c) ==
    LET f == frames[c]
        fallback_points == IF f.method = "generate_bull_case"
                           THEN bull_fallback_points ELSE bear_fallback_points
        fallback == fallback_points[f.i]
        last == f.i = Len(fallback_points)
    IN  /\ f.pc = "for"
        /\ frames' = Local(frames, c,
               [f EXCEPT !.work = AppendIf(f.work, Fills(fallback, f.work), fallback),
                         !.i = IF last THEN 0 ELSE f.i + 1,
                         !.pc = IF last THEN "while" ELSE "for"])
        /\ UNCHANGED <<ratios, growth_rates, ret, fresh, calls>>

CheckStep(c) ==
    LET f == frames[c]
        check == RedFlagCheck(f.i, ratios, growth_rates)
        last == f.i = 5
    IN  /\ f.pc = "check"
        /\ frames' = Local(frames, c,
               [f EXCEPT !.work = AppendIf(f.work, check.fires, check.msg),
                         !.i = IF last THEN 0 ELSE f.i + 1,
                         !.pc = IF last THEN "sentinel" ELSE "check"])
        /\ UNCHANGED <<ratios, growth_rates, ret, fresh, calls>>

SentinelStep(c) ==
    LET f == frames[c]
    IN  /\ f.pc = "sentinel"
        /\ frames' = Local(frames, c,
               [f EXCEPT !.work = IF f.work = <<>> THEN Append(f.work, NoRedFlags)
                                  ELSE f.work,
                         !.pc = "return"])
        /\ UNCHANGED <<ratios, growth_rates, ret, fresh, calls>>

BlockStep(c) ==
    LET f == frames[c]
        block == RiskBlock(f.i, f.held, ratios, growth_rates)
        last == f.i = 5
    IN  /\ f.pc = "block"
        /\ IF block.level = "TypeError"
           THEN frames' = Local(frames, c,
                   [f EXCEPT !.pc = "done", !.raised = TRUE, !.i = 0,
                             !.work = <<>>, !.held = NoneV])
           ELSE frames' = Local(frames, c,
                   [f EXCEPT !.work = Assign(f.work, block.category, block.level),
                             !.held = block.held,
                             !.i = IF last THEN 0 ELSE f.i + 1,
                             !.pc = IF last THEN "return" ELSE "block"])
        /\ UNCHANGED <<ratios, growth_rates, ret, fresh, calls>>

BodyStep(c) ==
    LET f == frames[c]
    IN  /\ f.pc = "body"
        /\ frames' = Local(frames, c,
               [f EXCEPT !.pc = "done", !.i = 0,
                         !.value = IF f.method = "calculate_valuation_range"
                                   THEN calculate_valuation_range
                                   ELSE get_key_metrics])
        /\ UNCHANGED <<ratios, growth_rates, ret, fresh, calls>>

Return(c) ==
    LET f == frames[c]
    IN  /\ f.pc = "return"
        /\ frames' = Local(frames, c,
               [f EXCEPT !.pc = "done", !.work = <<>>, !.held = NoneV,
                         !.value = IF f.method \in {"generate_bull_case",
                                                    "generate_bear_case"}
                                   THEN FirstThree(f.work) ELSE f.work])
        /\ UNCHANGED <<ratios, growth_rates, ret, fresh, calls>>

InitSteps ==
    /\ ProfileConstructed
    /\ Untouched

Step(c) ==
    \/ \E m \in Methods : Invoke(c, m)
    \/ RuleStep(c)
    \/ WhileTest(c)
    \/ ForStep(c)
    \/ CheckStep(c)
    \/ SentinelStep(c)
    \/ BlockStep(c)
    \/ BodyStep(c)
    \/ Return(c)

NextSteps == \E c \in Callers : Step(c)

SpecSteps == InitSteps /\ [][NextSteps]_vars

(***************************************************************************)
(* One caller running a method alone, statement after statement: the      *)
(* interpreter always executes the next statement of a running method.     *)
(***************************************************************************)
NextAlone == Step(1)

SpecAlone == InitSteps /\ [][NextAlone]_vars /\ WF_vars(NextAlone)

(***************************************************************************)
(* ----------------------------- Properties ------------------------------ *)
(*                                                                         *)
(* What the record says, read off the sources without the accessors: field *)
(* f has a number when its source is readable and its cell is a number or  *)
(* text spelling one.                                                      *)
(***************************************************************************)
Readable(f) ==
    IF f \in GrowthNames THEN growth_rates.kind = "Dict"
    ELSE ratios.kind \in {"Index", "Columns"}

CellOf(f) == IF f \in GrowthNames THEN growth_rates.cells[f] ELSE ratios.cells[f]

HasNumber(f) == Readable(f) /\ CellOf(f).k \in {"num", "numtext"}

NumberOf(f) == CellOf(f).v

Above(f, t) == HasNumber(f) /\ NumberOf(f) > t

Below(f, t) == HasNumber(f) /\ NumberOf(f) < t

Texts(points) == [i \in 1..Len(points) |-> points[i].text]

Pick(cond, text) == IF cond THEN <<text>> ELSE <<>>

Prefix3(s) == SubSeq(s, 1, IF Len(s) < 3 THEN Len(s) ELSE 3)

Returns(method) == ret.method = method /\ ~ret.raised

(***************************************************************************)
(* C1.  For every record, the fully empty one included, generate_bull_case *)
(* and generate_bear_case each return exactly 3 strings, and the 3 strings *)
(* of one result are pairwise distinct.                                    *)
(***************************************************************************)
C1_ThreeDistinctPoints ==
    ret.method \in {"generate_bull_case", "generate_bear_case"} =>
        /\ ~ret.raised
        /\ Len(ret.value) = 3
        /\ \A i, j \in 1..Len(ret.value) : i # j => ret.value[i] # ret.value[j]

(* Seven bull rules fired on one record and the result was cut to three.   *)
C1_Witness ==
    /\ Returns("generate_bull_case")
    /\ Len(BullRules(ratios, growth_rates)) = 7
    /\ Len(ret.value) = 3

(* The empty record: nothing fired and the bear case is all fallbacks.     *)
C1_WitnessEmpty ==
    /\ Returns("generate_bear_case")
    /\ ratios.kind = "Empty"
    /\ ~HasNumber("Total_Revenue_CAGR")
    /\ Len(ret.value) = 3

(***************************************************************************)
(* C2.  The bull case is the first 3 elements of: the messages of the      *)
(* fired bull rules in rule order 1..7 (ROE, Gross_Margin,                 *)
(* Operating_Margin, Current_Ratio, Debt_to_Equity, Total_Revenue_CAGR,    *)
(* cash flow), followed by the 3 fallback statements in their fixed order. *)
(***************************************************************************)
BullFiredTexts ==
    Pick(Above("ROE", 1500), "Strong profitability: ROE of")
    \o Pick(Above("Gross_Margin", 3000), "Healthy margins: Gross margin of")
    \o Pick(Above("Operating_Margin", 1500),
            "Strong operating efficiency: Operating margin of")
    \o Pick(Above("Current_Ratio", 15000), "Solid liquidity: Current ratio of")
    \o Pick(Below("Debt_to_Equity", 5000),
            "Conservative balance sheet: Debt/Equity of")
    \o Pick(Above("Total_Revenue_CAGR", 1000), "Consistent growth: Revenue CAGR of")
    \o Pick(/\ HasNumber("Net_Income") /\ HasNumber("Operating_Cash_Flow")
            /\ NumberOf("Operating_Cash_Flow") > NumberOf("Net_Income")
            /\ NumberOf("Net_Income") > 0,
            "Excellent cash generation: Operating cash flow exceeds net income")

BullFallbackTexts ==
    << "Established market position with brand recognition",
       "Diversified revenue streams reduce concentration risk",
       "Experienced management team with track record" >>

C2_BullCaseOrder ==
    ret.method = "generate_bull_case" =>
        /\ ~ret.raised
        /\ Texts(ret.value) = Prefix3(BullFiredTexts \o BullFallbackTexts)

(* One rule fired (not the first): its message, then two fallbacks.        *)
C2_Witness ==
    /\ Returns("generate_bull_case")
    /\ Len(BullFiredTexts) = 1
    /\ ~Above("ROE", 1500)
    /\ Texts(ret.value)[2] = BullFallbackTexts[1]
    /\ Texts(ret.value)[3] = BullFallbackTexts[2]

(* Four or more fired, the first rule not among them: truncation.          *)
C2_WitnessTruncated ==
    /\ Returns("generate_bull_case")
    /\ Len(BullFiredTexts) >= 4
    /\ ~Above("ROE", 1500)
    /\ Texts(ret.value) = SubSeq(BullFiredTexts, 1, 3)

(***************************************************************************)
(* C3.  The bear case is the first 3 elements of: the messages of the      *)
(* fired bear rules in rule order 1..6 (PE_Ratio > 30, Debt_to_Equity >    *)
(* 1.5, Total_Revenue_CAGR < 0.03, Operating_Margin < 0.05, Current_Ratio  *)
(* < 1.0, ROE < 0.05), followed by the bear fallbacks in fixed order.  The *)
(* CAGR rule gives one message, worded "revenue decline" iff CAGR < 0 and  *)
(* "slowing growth" otherwise; the ROE rule gives one message, worded      *)
(* "negative profitability" iff ROE < 0 and "low returns" otherwise.       *)
(***************************************************************************)
BearFiredTexts ==
    Pick(Above("PE_Ratio", 300000), "Premium valuation: P/E ratio of")
    \o Pick(Above("Debt_to_Equity", 15000), "High leverage risk: Debt/Equity of")
    \o Pick(Below("Total_Revenue_CAGR", 300),
            IF NumberOf("Total_Revenue_CAGR") < 0
            THEN "Revenue decline: CAGR signals market share loss"
            ELSE "Slowing growth: revenue CAGR suggests market maturation")
    \o Pick(Below("Operating_Margin", 500), "Thin margins: Operating margin of")
    \o Pick(Below("Current_Ratio", 10000), "Liquidity concerns: Current ratio of")
    \o Pick(Below("ROE", 500),
            IF NumberOf("ROE") < 0
            THEN "Negative profitability: ROE of"
            ELSE "Low returns: ROE of")

BearFallbackTexts ==
    << "Competitive pressure may compress margins over time",
       "Macroeconomic sensitivity could impact near-term results",
       "Execution risk in strategic initiatives" >>

C3_BearCaseOrder ==
    ret.method = "generate_bear_case" =>
        /\ ~ret.raised
        /\ Texts(ret.value) = Prefix3(BearFiredTexts \o BearFallbackTexts)

(* The CAGR rule fired with the "slowing growth" wording, after another    *)
(* rule and before a fallback.                                             *)
C3_Witness ==
    /\ Returns("generate_bear_case")
    /\ Len(BearFiredTexts) = 2
    /\ HasNumber("Total_Revenue_CAGR")
    /\ NumberOf("Total_Revenue_CAGR") = 0
    /\ Texts(ret.value)[2] = "Slowing growth: revenue CAGR suggests market maturation"
    /\ Texts(ret.value)[3] = BearFallbackTexts[1]

(***************************************************************************)
(* C4.  detect_red_flags returns a non-empty list: one warning for each of *)
(* the 5 checks that holds (ROE < 0, Debt_to_Equity > 2.0, Current_Ratio   *)
(* < 0.8, Total_Revenue_CAGR < -0.05, PE_Ratio > 100), in that order and   *)
(* uncapped; the "no major red flags" sentinel is the single element iff   *)
(* no check holds, and never appears next to a warning.                    *)
(***************************************************************************)
RedFlagTexts ==
    Pick(Below("ROE", 0),
         "Negative return on equity - company is destroying shareholder value")
    \o Pick(Above("Debt_to_Equity", 20000),
            "High leverage (D/E) - elevated bankruptcy risk")
    \o Pick(Below("Current_Ratio", 8000),
            "Liquidity crisis (Current Ratio) - may struggle to meet obligations")
    \o Pick(Below("Total_Revenue_CAGR", -500),
            "Significant revenue decline (CAGR) - business is shrinking")
    \o Pick(Above("PE_Ratio", 1000000),
            "Extreme valuation (P/E) - priced for perfection")

SentinelText == "No major red flags detected - fundamentals appear healthy"

C4_RedFlags ==
    ret.method = "detect_red_flags" =>
        /\ ~ret.raised
        /\ Len(ret.value) >= 1
        /\ RedFlagTexts # <<>> => Texts(ret.value) = RedFlagTexts
        /\ RedFlagTexts = <<>> <=> Texts(ret.value) = <<SentinelText>>
        /\ \A i \in 1..Len(ret.value) :
              ret.value[i].text = SentinelText => Len(ret.value) = 1

(* All five checks held on one record and all five warnings came back.     *)
C4_Witness ==
    /\ Returns("detect_red_flags")
    /\ Len(RedFlagTexts) = 5
    /\ Len(ret.value) = 5

(***************************************************************************)
(* C5.  For every record, the fully empty one included, assess_risks       *)
(* returns a map whose keys are exactly Financial Health, Valuation,       *)
(* Growth, Liquidity and Profitability, and whose every value is LOW,      *)
(* MODERATE or HIGH: no category is missing or undecided.                  *)
(***************************************************************************)
C5_RiskMapTotal ==
    ret.method = "assess_risks" =>
        /\ ~ret.raised
        /\ DOMAIN ret.value =
              {"Financial Health", "Valuation", "Growth", "Liquidity", "Profitability"}
        /\ \A c \in DOMAIN ret.value : ret.value[c] \in {"LOW", "MODERATE", "HIGH"}

(* assess_risks returned on a generator whose sources hold nothing.        *)
C5_Witness ==
    /\ Returns("assess_risks")
    /\ \A f \in FieldNames : ~HasNumber(f)
    /\ ratios.kind = "Empty"
    /\ DOMAIN ret.value = Categories

(***************************************************************************)
(* C6.  With each ratio that has no number replaced by its default         *)
(* (Current_Ratio 1.0, Debt_to_Equity 1.0, PE_Ratio 20.0,                  *)
(* Total_Revenue_CAGR 0.05, ROE 0.10, Operating_Margin 0.10), assess_risks *)
(* returns the level of the decision table for every category:             *)
(*   Financial Health  LOW iff CR >= 1.5 and D/E <= 0.5,                   *)
(*                     HIGH iff CR < 1.0 or D/E > 2.0;                     *)
(*   Valuation         LOW iff PE < 20, HIGH iff PE > 40;                  *)
(*   Growth            LOW iff CAGR > 0.10, HIGH iff CAGR < 0;             *)
(*   Liquidity         LOW iff CR >= 2.0, HIGH iff CR < 1.0;               *)
(*   Profitability     LOW iff ROE > 0.15 and OpMargin > 0.15,             *)
(*                     HIGH iff ROE < 0 or OpMargin < 0.05;                *)
(* and MODERATE in every other case.                                       *)
(***************************************************************************)
OrDefault(f, d) == IF HasNumber(f) THEN NumberOf(f) ELSE d

TableLow(c) ==
    LET cr == OrDefault("Current_Ratio", 10000)
        de == OrDefault("Debt_to_Equity", 10000)
        pe == OrDefault("PE_Ratio", 200000)
        cagr == OrDefault("Total_Revenue_CAGR", 500)
        roe == OrDefault("ROE", 1000)
        om == OrDefault("Operating_Margin", 1000)
    IN  CASE c = "Financial Health" -> cr >= 15000 /\ de <= 5000
          [] c = "Valuation" -> pe < 200000
          [] c = "Growth" -> cagr > 1000
          [] c = "Liquidity" -> cr >= 20000
          [] c = "Profitability" -> roe > 1500 /\ om > 1500

TableHigh(c) ==
    LET cr == OrDefault("Current_Ratio", 10000)
        de == OrDefault("Debt_to_Equity", 10000)
        pe == OrDefault("PE_Ratio", 200000)
        cagr == OrDefault("Total_Revenue_CAGR", 500)
        roe == OrDefault("ROE", 1000)
        om == OrDefault("Operating_Margin", 1000)
    IN  CASE c = "Financial Health" -> cr < 10000 \/ de > 20000
          [] c = "Valuation" -> pe > 400000
          [] c = "Growth" -> cagr < 0
          [] c = "Liquidity" -> cr < 10000
          [] c = "Profitability" -> roe < 0 \/ om < 500

C6_RiskDecisionTable ==
    ret.method = "assess_risks" =>
        /\ ~ret.raised
        /\ \A c \in Categories :
              /\ ret.value[c] = "LOW" <=> TableLow(c)
              /\ ret.value[c] = "HIGH" <=> TableHigh(c)
              /\ ret.value[c] = "MODERATE" <=> (~TableLow(c) /\ ~TableHigh(c))

(* Both Financial Health inputs sit exactly on the LOW thresholds.         *)
C6_Witness ==
    /\ Returns("assess_risks")
    /\ HasNumber("Current_Ratio") /\ NumberOf("Current_Ratio") = 15000
    /\ HasNumber("Debt_to_Equity") /\ NumberOf("Debt_to_Equity") = 5000
    /\ ret.value["Financial Health"] = "LOW"
    /\ ret.value["Liquidity"] = "MODERATE"

(***************************************************************************)
(* C7.  calculate_valuation_range returns bear_pct = -20 and bull_pct = 25 *)
(* for every record; with Current_Price present and > 0 it returns         *)
(* bear_case = price x 0.80, base_case = price, bull_case = price x 1.25   *)
(* (100 gives 80, 100, 125); with Current_Price absent, non-numeric, zero  *)
(* or negative it returns bear_case = base_case = bull_case = 0.           *)
(***************************************************************************)
C7_ValuationRange ==
    ret.method = "calculate_valuation_range" =>
        /\ ~ret.raised
        /\ ret.value.bear_pct = -20
        /\ ret.value.bull_pct = 25
        /\ IF HasNumber("Current_Price") /\ NumberOf("Current_Price") > 0
           THEN /\ ret.value.bear_case = Num((NumberOf("Current_Price") * 4) \div 5)
                /\ ret.value.base_case = Num(NumberOf("Current_Price"))
                /\ ret.value.bull_case = Num((NumberOf("Current_Price") * 5) \div 4)
           ELSE /\ ret.value.bear_case = Num(0)
                /\ ret.value.base_case = Num(0)
                /\ ret.value.bull_case = Num(0)

(***************************************************************************)
(* C8.  The two defaulting policies are kept apart.  For every record and  *)
(* every ratio or growth metric r that has no number in it (absent or      *)
(* non-numeric): no bull rule, bear rule or red-flag check that reads r    *)
(* fires, whatever its threshold; and assess_risks returns exactly the map *)
(* it returns for the same record with r set to its stated default.        *)
(***************************************************************************)
TextsReading ==
    [ROE |-> {"Strong profitability: ROE of", "Negative profitability: ROE of",
              "Low returns: ROE of",
              "Negative return on equity - company is destroying shareholder value"},
     Gross_Margin |-> {"Healthy margins: Gross margin of"},
     Operating_Margin |-> {"Strong operating efficiency: Operating margin of",
                           "Thin margins: Operating margin of"},
     Current_Ratio |-> {"Solid liquidity: Current ratio of",
                        "Liquidity concerns: Current ratio of",
                        "Liquidity crisis (Current Ratio) - may struggle to meet obligations"},
     Debt_to_Equity |-> {"Conservative balance sheet: Debt/Equity of",
                         "High leverage risk: Debt/Equity of",
                         "High leverage (D/E) - elevated bankruptcy risk"},
     PE_Ratio |-> {"Premium valuation: P/E ratio of",
                   "Extreme valuation (P/E) - priced for perfection"},
     Net_Income |-> {"Excellent cash generation: Operating cash flow exceeds net income"},
     Operating_Cash_Flow |->
         {"Excellent cash generation: Operating cash flow exceeds net income"},
     Current_Price |-> {},
     Market_Cap |-> {},
     Total_Revenue |-> {},
     Total_Revenue_CAGR |-> {"Consistent growth: Revenue CAGR of",
                             "Revenue decline: CAGR signals market share loss",
                             "Slowing growth: revenue CAGR suggests market maturation",
                             "Significant revenue decline (CAGR) - business is shrinking"}]

StatedDefault ==
    [Current_Ratio |-> 10000, Debt_to_Equity |-> 10000, PE_Ratio |-> 200000,
     Total_Revenue_CAGR |-> 500, ROE |-> 1000, Operating_Margin |-> 1000]

(* The sources of the same record with field f set to the number d.        *)
RatiosWith(f, d) ==
    IF f \in GrowthNames THEN ratios
    ELSE [kind |-> IF ratios.kind \in {"Index", "Columns"} THEN ratios.kind
                   ELSE "Index",
          cells |-> [ratios.cells EXCEPT ![f] = CellNum(d)]]

GrowthWith(f, d) ==
    IF f \in GrowthNames
    THEN [kind |-> "Dict", cells |-> [growth_rates.cells EXCEPT ![f] = CellNum(d)]]
    ELSE growth_rates

NoTextOf(f, points) == \A i \in 1..Len(points) : points[i].text \notin TextsReading[f]

C8_DualDefaulting ==
    \A f \in FieldNames :
        ~HasNumber(f) =>
            /\ NoTextOf(f, BullRules(ratios, growth_rates))
            /\ NoTextOf(f, BearRules(ratios, growth_rates))
            /\ NoTextOf(f, RedFlagChecks(ratios, growth_rates))
            /\ ret.method \in {"generate_bull_case", "generate_bear_case",
                               "detect_red_flags"}
                  => ~ret.raised /\ NoTextOf(f, ret.value)
            /\ (ret.method = "assess_risks" /\ f \in DOMAIN StatedDefault)
                  => /\ ~ret.raised
                     /\ ret.value =
                           AssessRisks(RatiosWith(f, StatedDefault[f]),
                                       GrowthWith(f, StatedDefault[f])).risks

(* assess_risks returned on a record whose Current_Ratio is unparseable    *)
(* text while Debt_to_Equity is high enough to decide Financial Health.    *)
C8_Witness ==
    /\ Returns("assess_risks")
    /\ Readable("Current_Ratio")
    /\ CellOf("Current_Ratio") = CellText
    /\ Above("Debt_to_Equity", 20000)
    /\ ret.value["Financial Health"] = "HIGH"
    /\ ret.value["Liquidity"] = "MODERATE"

(* The bear case returned on a record whose ROE is None: only fallbacks.   *)
C8_WitnessSkip ==
    /\ Returns("generate_bear_case")
    /\ Readable("ROE")
    /\ CellOf("ROE") = CellNone
    /\ Texts(ret.value) = BearFallbackTexts

(***************************************************************************)
(* C9.  The ratio accessors never raise: for every name and default,       *)
(* _get_ratio and _get_growth_rate return the stored number when the key   *)
(* is present with a numeric value, and the caller's default in every      *)
(* other case (missing key, None/NaN value, non-numeric value, empty or    *)
(* None source); so no exception escapes any of the six public methods.    *)
(***************************************************************************)
CallerDefaults == {NoneV} \cup {Num(StatedDefault[f]) : f \in DOMAIN StatedDefault}

C9_AccessorContract ==
    /\ ~ret.raised
    /\ \A name \in RatioNames, default \in CallerDefaults :
          _get_ratio(name, default) =
              IF HasNumber(name) THEN Num(NumberOf(name)) ELSE default
    /\ \A name \in GrowthNames, default \in CallerDefaults :
          _get_growth_rate(name, default) =
              IF HasNumber(name) THEN Num(NumberOf(name)) ELSE default
    /\ ret.method = "get_key_metrics" =>
          \A m \in DOMAIN ret.value :
              ret.value[m] = IF HasNumber(MetricRatio[m])
                             THEN Num(NumberOf(MetricRatio[m])) ELSE NoneV

(***************************************************************************)
(* C10.  Every bull, bear and red-flag rule compares strictly: a value     *)
(* exactly on a rule's threshold does not fire it.  In particular, with    *)
(* Debt_to_Equity anywhere in [0.5, 1.5], ends included, neither the bull  *)
(* low-leverage rule nor the bear high-leverage rule fires.                *)
(***************************************************************************)
StrictThresholds ==
    { <<"generate_bull_case", "ROE", 1500, "Strong profitability: ROE of">>,
      <<"generate_bull_case", "Gross_Margin", 3000, "Healthy margins: Gross margin of">>,
      <<"generate_bull_case", "Operating_Margin", 1500,
        "Strong operating efficiency: Operating margin of">>,
      <<"generate_bull_case", "Current_Ratio", 15000, "Solid liquidity: Current ratio of">>,
      <<"generate_bull_case", "Debt_to_Equity", 5000,
        "Conservative balance sheet: Debt/Equity of">>,
      <<"generate_bull_case", "Total_Revenue_CAGR", 1000,
        "Consistent growth: Revenue CAGR of">>,
      <<"generate_bull_case", "Net_Income", 0,
        "Excellent cash generation: Operating cash flow exceeds net income">>,
      <<"generate_bear_case", "PE_Ratio", 300000, "Premium valuation: P/E ratio of">>,
      <<"generate_bear_case", "Debt_to_Equity", 15000,
        "High leverage risk: Debt/Equity of">>,
      <<"generate_bear_case", "Total_Revenue_CAGR", 300,
        "Slowing growth: revenue CAGR suggests market maturation">>,
      <<"generate_bear_case", "Total_Revenue_CAGR", 0,
        "Revenue decline: CAGR signals market share loss">>,
      <<"generate_bear_case", "Operating_Margin", 500, "Thin margins: Operating margin of">>,
      <<"generate_bear_case", "Current_Ratio", 10000,
        "Liquidity concerns: Current ratio of">>,
      <<"generate_bear_case", "ROE", 500, "Low returns: ROE of">>,
      <<"generate_bear_case", "ROE", 0, "Negative profitability: ROE of">>,
      <<"detect_red_flags", "ROE", 0,
        "Negative return on equity - company is destroying shareholder value">>,
      <<"detect_red_flags", "Debt_to_Equity", 20000,
        "High leverage (D/E) - elevated bankruptcy risk">>,
      <<"detect_red_flags", "Current_Ratio", 8000,
        "Liquidity crisis (Current Ratio) - may struggle to meet obligations">>,
      <<"detect_red_flags", "Total_Revenue_CAGR", -500,
        "Significant revenue decline (CAGR) - business is shrinking">>,
      <<"detect_red_flags", "PE_Ratio", 1000000,
        "Extreme valuation (P/E) - priced for perfection">> }

HasText(text, points) == \E i \in 1..Len(points) : points[i].text = text

C10_StrictComparisons ==
    /\ \A s \in StrictThresholds :
          (ret.method = s[1] /\ HasNumber(s[2]) /\ NumberOf(s[2]) = s[3])
              => ~ret.raised /\ ~HasText(s[4], ret.value)
    /\ (/\ ret.method = "generate_bull_case"
        /\ HasNumber("Net_Income") /\ HasNumber("Operating_Cash_Flow")
        /\ NumberOf("Operating_Cash_Flow") = NumberOf("Net_Income"))
          => ~HasText("Excellent cash generation: Operating cash flow exceeds net income",
                      ret.value)
    /\ (/\ HasNumber("Debt_to_Equity")
        /\ NumberOf("Debt_to_Equity") >= 5000
        /\ NumberOf("Debt_to_Equity") <= 15000)
          => /\ ret.method = "generate_bull_case"
                   => ~HasText("Conservative balance sheet: Debt/Equity of", ret.value)
             /\ ret.method = "generate_bear_case"
                   => ~HasText("High leverage risk: Debt/Equity of", ret.value)

(* The bear case returned with Debt_to_Equity exactly 1.5 and nothing else *)
(* in the record: three fallbacks, no leverage message.                    *)
C10_Witness ==
    /\ Returns("generate_bear_case")
    /\ HasNumber("Debt_to_Equity")
    /\ NumberOf("Debt_to_Equity") = 15000
    /\ Texts(ret.value) = BearFallbackTexts

(***************************************************************************)
(* C11.  After any finite sequence of calls to the six judgment methods on *)
(* one generator, in any order and with any repetition, the call just made *)
(* returned what the same method returns when it is the first call on a    *)
(* fresh generator for the same record, and ratios and growth_rates are    *)
(* what the constructor set.                                               *)
(***************************************************************************)
FirstOn(m, rs, gs) ==
    CASE m = "generate_bull_case" -> BullCase(rs, gs)
      [] m = "generate_bear_case" -> BearCase(rs, gs)
      [] m = "assess_risks" -> AssessRisks(rs, gs).risks
      [] m = "detect_red_flags" -> RedFlags(rs, gs)
      [] m = "calculate_valuation_range" -> ValuationRange(rs)
      [] m = "get_key_metrics" -> KeyMetrics(rs)

C11_NoStateDrift ==
    /\ ratios = fresh.ratios
    /\ growth_rates = fresh.growth_rates
    /\ calls # <<>> =>
          /\ ret.method = calls[Len(calls)]
          /\ ~ret.raised
          /\ ret.value = FirstOn(ret.method, fresh.ratios, fresh.growth_rates)

(* detect_red_flags was called twice in a row on one generator and the     *)
(* second call warned again, as the first did.                             *)
C11_Witness ==
    /\ Len(calls) = 2
    /\ calls[1] = "detect_red_flags"
    /\ calls[2] = "detect_red_flags"
    /\ Len(ret.value) >= 1
    /\ ret.value[1].text # SentinelText

(* The bull case was asked for after assess_risks had run with its         *)
(* defaults on a record whose Debt_to_Equity is None.                      *)
C11_WitnessOrder ==
    /\ calls = <<"assess_risks", "generate_bull_case">>
    /\ Readable("Debt_to_Equity")
    /\ CellOf("Debt_to_Equity") = CellNone
    /\ Texts(ret.value) = BullFallbackTexts

(***************************************************************************)
(* C12.  Every number embedded in a bull, bear or red-flag message is      *)
(* rendered with the stated precision: a percentage (ROE, the margins,     *)
(* Total_Revenue_CAGR) as the value times 100 rounded to 1 decimal, and a  *)
(* ratio shown with an "x" suffix (Current_Ratio, Debt_to_Equity,          *)
(* PE_Ratio) rounded to 2 decimals.                                        *)
(***************************************************************************)
PercentFields == {"ROE", "Gross_Margin", "Operating_Margin", "Total_Revenue_CAGR"}

MetricOf(text) == CHOOSE f \in FieldNames : text \in TextsReading[f]

Rendered(f) ==
    IF f \in PercentFields
    THEN [k |-> "num", v |-> RoundDiv(NumberOf(f), 10), dec |-> 1, suffix |-> "%"]
    ELSE [k |-> "num", v |-> RoundDiv(NumberOf(f), 100), dec |-> 2, suffix |-> "x"]

C12_MessagePrecision ==
    ret.method \in {"generate_bull_case", "generate_bear_case", "detect_red_flags"} =>
        /\ ~ret.raised
        /\ \A i \in 1..Len(ret.value) :
              ret.value[i].num # NoNumber =>
                  /\ HasNumber(MetricOf(ret.value[i].text))
                  /\ ret.value[i].num = Rendered(MetricOf(ret.value[i].text))

(***************************************************************************)
(* C13.  Two or more callers invoking judgment methods concurrently on the *)
(* same read-only record, their steps interleaved in any order and without *)
(* locks, each obtain exactly the result the method returns when run       *)
(* alone; the record they read is never changed by a step.                 *)
(***************************************************************************)
C13_ConcurrentCallers ==
    /\ ratios = fresh.ratios
    /\ growth_rates = fresh.growth_rates
    /\ \A c \in Callers :
          frames[c].pc = "done" =>
              /\ ~frames[c].raised
              /\ frames[c].value = FirstOn(frames[c].method, ratios, growth_rates)

(* Two invocations of generate_bull_case are in progress at once, both     *)
(* past their padding loop, on a record where one rule fired: each holds   *)
(* its own complete list of one message and two fallbacks.                 *)
C13_Witness ==
    /\ \A c \in {1, 2} :
          /\ frames[c].method = "generate_bull_case"
          /\ frames[c].pc = "return"
          /\ frames[c].passes = 1
          /\ Texts(frames[c].work) = Prefix3(BullFiredTexts \o BullFallbackTexts)
    /\ Len(BullFiredTexts) = 1

(* A caller has its bear case while another is half way through the red    *)
(* flags of the same record.                                               *)
C13_WitnessMixed ==
    /\ frames[1].pc = "done"
    /\ frames[1].method = "generate_bear_case"
    /\ Texts(frames[1].value) = Prefix3(BearFiredTexts \o BearFallbackTexts)
    /\ frames[2].method = "detect_red_flags"
    /\ frames[2].pc = "check"
    /\ frames[2].i = 3
    /\ Len(frames[2].work) = 1

(***************************************************************************)
(* C14.  The padding loop of generate_bull_case and generate_bear_case     *)
(* terminates for every input: from a list of 0, 1 or 2 rule messages the  *)
(* while loop exits after at most one pass over the 3 fallbacks, since a   *)
(* pass appends a fallback not yet in the list; it is never at its test    *)
(* with all fallbacks present and fewer than 3 points; and a call that has *)
(* reached the loop returns, with 3 points.                                *)
(***************************************************************************)
Padding(c) ==
    frames[c].method \in {"generate_bull_case", "generate_bear_case"}

FallbackTextsOf(c) ==
    IF frames[c].method = "generate_bull_case"
    THEN BullFallbackTexts ELSE BearFallbackTexts

C14_OnePass ==
    \A c \in Callers :
        Padding(c) =>
            /\ frames[c].passes <= 1
            /\ (frames[c].pc = "while" /\ frames[c].passes = 1)
                  => Len(frames[c].work) = 3
            /\ ~(/\ frames[c].pc = "while"
                 /\ Len(frames[c].work) < 3
                 /\ \A j \in 1..3 :
                       HasText(FallbackTextsOf(c)[j], frames[c].work))
            /\ frames[c].pc = "done"
                  => ~frames[c].raised /\ Len(frames[c].value) = 3

C14_PaddingTerminates ==
    /\ []C14_OnePass
    /\ \A c \in Callers :
          (Padding(c) /\ frames[c].pc = "while")
              ~> (Padding(c) /\ frames[c].pc = "done")

(* The loop is back at its test after its one pass, which started from two *)
(* rule messages and appended the first fallback only.                     *)
C14_Witness ==
    /\ frames[1].method = "generate_bear_case"
    /\ frames[1].pc = "while"
    /\ frames[1].passes = 1
    /\ Len(BearFiredTexts) = 2
    /\ Texts(frames[1].work) = BearFiredTexts \o <<BearFallbackTexts[1]>>

(* The same from no rule message at all: one pass appended all three.      *)
C14_WitnessEmpty ==
    /\ frames[1].method = "generate_bull_case"
    /\ frames[1].pc = "while"
    /\ frames[1].passes = 1
    /\ BullFiredTexts = <<>>
    /\ Texts(frames[1].work) = BullFallbackTexts

(***************************************************************************)
(* C15.  Red flags and the risk map agree for every record: whenever       *)
(* detect_red_flags emits a warning, assess_risks on the same record rates *)
(* the matching category HIGH: the ROE warning implies Profitability HIGH, *)
(* the Debt_to_Equity warning Financial Health HIGH, the Current_Ratio     *)
(* warning both Liquidity HIGH and Financial Health HIGH, the revenue-CAGR *)
(* warning Growth HIGH, the PE_Ratio warning Valuation HIGH.  Hence a      *)
(* record with no HIGH category yields only the sentinel.                  *)
(***************************************************************************)
WarningCategory ==
    { <<"Negative return on equity - company is destroying shareholder value",
        "Profitability">>,
      <<"High leverage (D/E) - elevated bankruptcy risk", "Financial Health">>,
      <<"Liquidity crisis (Current Ratio) - may struggle to meet obligations",
        "Liquidity">>,
      <<"Liquidity crisis (Current Ratio) - may struggle to meet obligations",
        "Financial Health">>,
      <<"Significant revenue decline (CAGR) - business is shrinking", "Growth">>,
      <<"Extreme valuation (P/E) - priced for perfection", "Valuation">> }

C15_FlagsImplyHigh ==
    /\ ret.method = "detect_red_flags" =>
          /\ ~ret.raised
          /\ ~AssessRisks(ratios, growth_rates).raised
          /\ \A w \in WarningCategory :
                HasText(w[1], ret.value)
                    => AssessRisks(ratios, growth_rates).risks[w[2]] = "HIGH"
    /\ ret.method = "assess_risks" =>
          /\ ~ret.raised
          /\ \A w \in WarningCategory :
                HasText(w[1], RedFlags(ratios, growth_rates))
                    => ret.value[w[2]] = "HIGH"
          /\ (\A c \in DOMAIN ret.value : ret.value[c] # "HIGH")
                => Texts(RedFlags(ratios, growth_rates)) = <<SentinelText>>

(* The liquidity warning came back on a record whose Debt_to_Equity is     *)
(* low, and the risk map of that record rates both Liquidity and Financial *)
(* Health HIGH.                                                            *)
C15_Witness ==
    /\ Returns("detect_red_flags")
    /\ HasText("Liquidity crisis (Current Ratio) - may struggle to meet obligations",
               ret.value)
    /\ Below("Debt_to_Equity", 5000)
    /\ AssessRisks(ratios, growth_rates).risks["Liquidity"] = "HIGH"
    /\ AssessRisks(ratios, growth_rates).risks["Financial Health"] = "HIGH"

(* A risk map without HIGH on a record that has numbers: only the sentinel. *)
C15_WitnessNoHigh ==
    /\ Returns("assess_risks")
    /\ \A c \in DOMAIN ret.value : ret.value[c] # "HIGH"
    /\ HasNumber("ROE") /\ HasNumber("PE_Ratio") /\ HasNumber("Current_Ratio")
    /\ Texts(RedFlags(ratios, growth_rates)) = <<SentinelText>>

(***************************************************************************)
(* C16.  No metric argues both sides: for every record and each metric     *)
(* read by both a bull rule and a bear rule (ROE, Operating_Margin,        *)
(* Current_Ratio, Debt_to_Equity, Total_Revenue_CAGR), the bull rule and   *)
(* the bear rule on it never both fire, so the bull case and the bear case *)
(* of one record never both contain a message derived from the same        *)
(* metric.                                                                 *)
(***************************************************************************)
BothSides ==
    { [bull |-> "Strong profitability: ROE of",
       bear |-> {"Negative profitability: ROE of", "Low returns: ROE of"}],
      [bull |-> "Strong operating efficiency: Operating margin of",
       bear |-> {"Thin margins: Operating margin of"}],
      [bull |-> "Solid liquidity: Current ratio of",
       bear |-> {"Liquidity concerns: Current ratio of"}],
      [bull |-> "Conservative balance sheet: Debt/Equity of",
       bear |-> {"High leverage risk: Debt/Equity of"}],
      [bull |-> "Consistent growth: Revenue CAGR of",
       bear |-> {"Revenue decline: CAGR signals market share loss",
                 "Slowing growth: revenue CAGR suggests market maturation"}] }

HasAnyText(texts, points) == \E t \in texts : HasText(t, points)

C16_NoMetricBothSides ==
    \A s \in BothSides :
        /\ ~(/\ HasText(s.bull, BullRules(ratios, growth_rates))
             /\ HasAnyText(s.bear, BearRules(ratios, growth_rates)))
        /\ ret.method = "generate_bull_case" =>
              ~(/\ HasText(s.bull, ret.value)
                /\ HasAnyText(s.bear, BearCase(ratios, growth_rates)))
        /\ ret.method = "generate_bear_case" =>
              ~(/\ HasAnyText(s.bear, ret.value)
                /\ HasText(s.bull, BullCase(ratios, growth_rates)))

(* One record with a bull case arguing from ROE and a bear case arguing    *)
(* from Debt_to_Equity: both sides speak, on different metrics.            *)
C16_Witness ==
    /\ Returns("generate_bull_case")
    /\ HasText("Strong profitability: ROE of", ret.value)
    /\ HasText("High leverage risk: Debt/Equity of",
               BearCase(ratios, growth_rates))
    /\ Above("ROE", 1500)
    /\ Above("Debt_to_Equity", 15000)

====
